---- MODULE Spec2Model ----
(***************************************************************************)
(* Model of spotifyapp.py: the two scoring functions mbti_from_genres and  *)
(* ocean_from_genres, executed statement by statement in call frames, and  *)
(* the main flow of the script that calls them.                            *)
(*                                                                         *)
(* Strings are sequences of one-character strings, so that str.lower() is  *)
(* a real conversion.  OCEAN scores are kept in tenths (65.0 is 650): the  *)
(* code rounds to one decimal place, so every returned value is a whole    *)
(* number of tenths.  A mean is the exact rational <<sum, hits>>.          *)
(***************************************************************************)
EXTENDS Integers, Sequences, FiniteSets, TLC

\* ------------------------------------------------------------------------
\* Bounds of the model
\* ------------------------------------------------------------------------
MaxLen == 4
ConcMaxLen == 2
NumCalls == 2
MaxArtists == 2
MaxArtistGenres == 2

\* ------------------------------------------------------------------------
\* String literals of the source
\* ------------------------------------------------------------------------
indie == <<"i","n","d","i","e">>
folk == <<"f","o","l","k">>
ambient == <<"a","m","b","i","e","n","t">>
lo_fi == <<"l","o","-","f","i">>
pop == <<"p","o","p">>
dance_pop == <<"d","a","n","c","e"," ","p","o","p">>
electropop == <<"e","l","e","c","t","r","o","p","o","p">>
k_pop == <<"k","-","p","o","p">>
hip_hop == <<"h","i","p"," ","h","o","p">>
rap == <<"r","a","p">>
trap == <<"t","r","a","p">>
classical == <<"c","l","a","s","s","i","c","a","l">>
jazz == <<"j","a","z","z">>
instrumental == <<"i","n","s","t","r","u","m","e","n","t","a","l">>
rock == <<"r","o","c","k">>
metal == <<"m","e","t","a","l">>
punk == <<"p","u","n","k">>
r_and_b == <<"r","&","b">>
soul == <<"s","o","u","l">>
alternative == <<"a","l","t","e","r","n","a","t","i","v","e">>
alt_rock == <<"a","l","t"," ","r","o","c","k">>
edm == <<"e","d","m">>
Unknown == <<"U","n","k","n","o","w","n">>

\* ------------------------------------------------------------------------
\* str.lower()
\* ------------------------------------------------------------------------
UpperChars == <<"A","B","C","D","E","F","G","H","I","J","K","L","M",
                "N","O","P","Q","R","S","T","U","V","W","X","Y","Z">>
LowerChars == <<"a","b","c","d","e","f","g","h","i","j","k","l","m",
                "n","o","p","q","r","s","t","u","v","w","x","y","z">>

\* the lower-case letter of every upper-case letter
ToLower ==
    [c \in {UpperChars[k] : k \in DOMAIN UpperChars} |->
        LowerChars[CHOOSE k \in DOMAIN UpperChars : UpperChars[k] = c]]

\* characters without a lower-case form are kept
LowerChar(c) ==
    IF c \in DOMAIN ToLower THEN ToLower[c] ELSE c

\* mutant of Lower: no case folding
LowerIdentity(s) ==
    s

Lower(s) ==
    [k \in DOMAIN s |-> LowerChar(s[k])]

\* x in [a, b, ...] for a list literal
InList(x, list) ==
    \E k \in DOMAIN list : list[k] = x

\* ------------------------------------------------------------------------
\* mbti_from_genres
\* ------------------------------------------------------------------------
TallyKeys == {"I","E","N","S","T","F","J","P"}

ZeroTally ==
    [k \in TallyKeys |-> 0]

Inc(t, k) ==
    [t EXCEPT ![k] = @ + 1]

\* mutant of MbtiBody: the r&b / soul category also counts an E
MbtiBodyBothLetters(t, g0) ==
    LET g == Lower(g0) IN
    IF InList(g, <<indie, folk, ambient, lo_fi>>)
    THEN Inc(Inc(Inc(Inc(t, "I"), "N"), "F"), "P")
    ELSE IF InList(g, <<pop, dance_pop, electropop, k_pop>>)
    THEN Inc(Inc(Inc(Inc(t, "E"), "S"), "F"), "J")
    ELSE IF InList(g, <<hip_hop, rap, trap>>)
    THEN Inc(Inc(Inc(Inc(t, "E"), "S"), "T"), "P")
    ELSE IF InList(g, <<classical, jazz, instrumental>>)
    THEN Inc(Inc(Inc(Inc(t, "I"), "N"), "T"), "J")
    ELSE IF InList(g, <<rock, metal, punk>>)
    THEN Inc(Inc(Inc(Inc(t, "E"), "S"), "T"), "P")
    ELSE IF InList(g, <<r_and_b, soul>>)
    THEN Inc(Inc(Inc(Inc(t, "I"), "E"), "F"), "J")
    ELSE IF InList(g, <<alternative>>)
    THEN Inc(Inc(Inc(Inc(t, "I"), "N"), "T"), "P")
    ELSE t

\* body of the for loop: g = g.lower() and the if/elif chain
MbtiBody(t, g0) ==
    LET g == Lower(g0) IN
    IF InList(g, <<indie, folk, ambient, lo_fi>>)
    THEN Inc(Inc(Inc(Inc(t, "I"), "N"), "F"), "P")
    ELSE IF InList(g, <<pop, dance_pop, electropop, k_pop>>)
    THEN Inc(Inc(Inc(Inc(t, "E"), "S"), "F"), "J")
    ELSE IF InList(g, <<hip_hop, rap, trap>>)
    THEN Inc(Inc(Inc(Inc(t, "E"), "S"), "T"), "P")
    ELSE IF InList(g, <<classical, jazz, instrumental>>)
    THEN Inc(Inc(Inc(Inc(t, "I"), "N"), "T"), "J")
    ELSE IF InList(g, <<rock, metal, punk>>)
    THEN Inc(Inc(Inc(Inc(t, "E"), "S"), "T"), "P")
    ELSE IF InList(g, <<r_and_b, soul>>)
    THEN Inc(Inc(Inc(t, "I"), "F"), "J")
    ELSE IF InList(g, <<alternative>>)
    THEN Inc(Inc(Inc(Inc(t, "I"), "N"), "T"), "P")
    ELSE t

\* mutant of MbtiCode: > instead of >=, the right letter wins a tie
MbtiCodeRightOnTie(t) ==
    << IF t["I"] > t["E"] THEN "I" ELSE "E",
       IF t["N"] > t["S"] THEN "N" ELSE "S",
       IF t["T"] > t["F"] THEN "T" ELSE "F",
       IF t["J"] > t["P"] THEN "J" ELSE "P" >>

\* the return expression: one letter per axis, left letter on a tie
MbtiCode(t) ==
    << IF t["I"] >= t["E"] THEN "I" ELSE "E",
       IF t["N"] >= t["S"] THEN "N" ELSE "S",
       IF t["T"] >= t["F"] THEN "T" ELSE "F",
       IF t["J"] >= t["P"] THEN "J" ELSE "P" >>

\* ------------------------------------------------------------------------
\* OCEAN_WEIGHTS and ocean_from_genres
\* ------------------------------------------------------------------------
OceanKeys ==
    {indie, lo_fi, classical, jazz, alt_rock, rock, metal, hip_hop, trap,
     pop, dance_pop, edm, r_and_b, soul, folk, ambient, punk, electropop,
     k_pop}

\* mutant of OceanWeightsTable: the first weight of "classical" is 6
OceanWeightsTableOutOfScale ==
    [k \in OceanKeys |->
        CASE k = indie      -> <<4, 1, 2, 2, 1>>
          [] k = lo_fi      -> <<4, 1, 1, 2, 1>>
          [] k = classical  -> <<6, 4, 1, 3, 1>>
          [] k = jazz       -> <<5, 3, 2, 3, 1>>
          [] k = alt_rock   -> <<4, 2, 3, 2, 2>>
          [] k = rock       -> <<3, 2, 4, 2, 2>>
          [] k = metal      -> <<2, 2, 4, 1, 3>>
          [] k = hip_hop    -> <<2, 2, 4, 2, 2>>
          [] k = trap       -> <<2, 1, 4, 2, 3>>
          [] k = pop        -> <<3, 3, 4, 3, 2>>
          [] k = dance_pop  -> <<2, 3, 5, 3, 1>>
          [] k = edm        -> <<3, 2, 5, 2, 1>>
          [] k = r_and_b    -> <<3, 2, 3, 4, 2>>
          [] k = soul       -> <<4, 2, 3, 4, 1>>
          [] k = folk       -> <<4, 2, 2, 4, 1>>
          [] k = ambient    -> <<4, 1, 1, 3, 1>>
          [] k = punk       -> <<2, 2, 4, 1, 3>>
          [] k = electropop -> <<3, 3, 5, 3, 1>>
          [] k = k_pop      -> <<3, 3, 5, 3, 2>>]

OceanWeightsTable ==
    [k \in OceanKeys |->
        CASE k = indie      -> <<4, 1, 2, 2, 1>>
          [] k = lo_fi      -> <<4, 1, 1, 2, 1>>
          [] k = classical  -> <<5, 4, 1, 3, 1>>
          [] k = jazz       -> <<5, 3, 2, 3, 1>>
          [] k = alt_rock   -> <<4, 2, 3, 2, 2>>
          [] k = rock       -> <<3, 2, 4, 2, 2>>
          [] k = metal      -> <<2, 2, 4, 1, 3>>
          [] k = hip_hop    -> <<2, 2, 4, 2, 2>>
          [] k = trap       -> <<2, 1, 4, 2, 3>>
          [] k = pop        -> <<3, 3, 4, 3, 2>>
          [] k = dance_pop  -> <<2, 3, 5, 3, 1>>
          [] k = edm        -> <<3, 2, 5, 2, 1>>
          [] k = r_and_b    -> <<3, 2, 3, 4, 2>>
          [] k = soul       -> <<4, 2, 3, 4, 1>>
          [] k = folk       -> <<4, 2, 2, 4, 1>>
          [] k = ambient    -> <<4, 1, 1, 3, 1>>
          [] k = punk       -> <<2, 2, 4, 1, 3>>
          [] k = electropop -> <<3, 3, 5, 3, 1>>
          [] k = k_pop      -> <<3, 3, 5, 3, 2>>]

Traits == 1..5

ZeroTotals ==
    [k \in Traits |-> 0]

\* mutant of OceanBody: hits += 1 outside the if, misses are counted too
OceanBodyCountsMisses(acc, g0, weights) ==
    LET g == Lower(g0) IN
    IF g \in DOMAIN weights
    THEN [trait_totals |-> [k \in Traits |-> acc.trait_totals[k] + weights[g][k]],
          hits |-> acc.hits + 1]
    ELSE [trait_totals |-> acc.trait_totals, hits |-> acc.hits + 1]

\* body of the for loop: g = g.lower(); on a hit add the row and count it
OceanBody(acc, g0, weights) ==
    LET g == Lower(g0) IN
    IF g \in DOMAIN weights
    THEN [trait_totals |-> [k \in Traits |-> acc.trait_totals[k] + weights[g][k]],
          hits |-> acc.hits + 1]
    ELSE acc

\* np.interp(x, (1, 5), (20, 80)) on the rational x = m[1] / m[2]:
\* the end values outside [1, 5], slope * (x - 1) + 20 inside
Interp(m) ==
    IF m[1] <= 1 * m[2] THEN <<20, 1>>
    ELSE IF m[1] >= 5 * m[2] THEN <<80, 1>>
    ELSE <<((80 - 20) \div (5 - 1)) * (m[1] - m[2]) + 20 * m[2], m[2]>>

\* mutant of Round1: halves are rounded up
Round1HalfUp(x) ==
    LET n == 10 * x[1]
        q == n \div x[2]
        r == n % x[2]
    IN  IF 2 * r < x[2] THEN q ELSE q + 1

\* ndarray.round(1): rint(x * 10) / 10, rint rounds halves to even.
\* The result is the number of tenths.
Round1(x) ==
    LET n == 10 * x[1]
        q == n \div x[2]
        r == n % x[2]
    IN  IF 2 * r < x[2] THEN q
        ELSE IF 2 * r > x[2] THEN q + 1
        ELSE IF q % 2 = 0 THEN q ELSE q + 1

\* mutant of OceanResult: without a hit the result is all 0
OceanResultZeroSentinel(acc) ==
    IF acc.hits = 0
    THEN [k \in Traits |-> 0]
    ELSE [k \in Traits |-> Round1(Interp(<<acc.trait_totals[k], acc.hits>>))]

\* the statements after the loop
OceanResult(acc) ==
    IF acc.hits = 0
    THEN [k \in Traits |-> 50 * 10]
    ELSE [k \in Traits |-> Round1(Interp(<<acc.trait_totals[k], acc.hits>>))]

\* ------------------------------------------------------------------------
\* The two functions as operators: the loop folded over the list
\* ------------------------------------------------------------------------
RECURSIVE MbtiFold(_, _)
MbtiFold(t, genres) ==
    IF genres = <<>> THEN t
    ELSE MbtiFold(MbtiBody(t, Head(genres)), Tail(genres))

mbti_from_genres(genres) ==
    IF genres = <<>> THEN Unknown
    ELSE MbtiCode(MbtiFold(ZeroTally, genres))

RECURSIVE OceanFold(_, _, _)
OceanFold(acc, genres, weights) ==
    IF genres = <<>> THEN acc
    ELSE OceanFold(OceanBody(acc, Head(genres), weights), Tail(genres), weights)

ocean_from_genres(genres, weights) ==
    OceanResult(OceanFold([trait_totals |-> ZeroTotals, hits |-> 0], genres, weights))

\* ------------------------------------------------------------------------
\* State
\* ------------------------------------------------------------------------
VARIABLES
    OCEAN_WEIGHTS,   \* the module-level dict
    heap,            \* list objects; a frame's genres is an index into it
    frames,          \* one record per invocation of a scoring function
    pc,              \* position of the script's main flow
    raw_genres,      \* main flow: genres of the top artists, flattened
    top_genres,      \* main flow: index of the top-genres list in heap, 0 unset
    mbti,            \* main flow: result of mbti_from_genres, <<>> unset
    ocean,           \* main flow: result of ocean_from_genres, <<>> unset
    shown,           \* main flow: what the page has rendered so far
    insight_args     \* arguments of each call of generate_personality_insight

vars == <<OCEAN_WEIGHTS, heap, frames, pc, raw_genres, top_genres, mbti,
          ocean, shown, insight_args>>

mainVars == <<pc, raw_genres, top_genres, mbti, ocean, shown, insight_args>>

\* sequences over S of length at most n
RECURSIVE SeqsUpTo(_, _)
SeqsUpTo(S, n) ==
    IF n = 0 THEN {<<>>}
    ELSE LET shorter == SeqsUpTo(S, n - 1)
         IN  shorter \cup {Append(q, x) : q \in {r \in shorter : Len(r) = n - 1}, x \in S}

\* a frame at the first statement of fn, called with the list object ref
NewFrame(fn, ref) ==
    [fn |-> fn, genres |-> ref, pc |-> "entry", i |-> 0, t |-> ZeroTally,
     trait_totals |-> ZeroTotals, hits |-> 0, ret |-> <<>>]

\* ------------------------------------------------------------------------
\* Steps of mbti_from_genres in frame c
\* ------------------------------------------------------------------------
\* mutant of MbtiEntry: the empty list is not checked for
MbtiEntryNoEmptyCheck(c) ==
    /\ frames[c].fn = "mbti"
    /\ frames[c].pc = "entry"
    /\ frames' = [frames EXCEPT ![c].t = ZeroTally, ![c].i = 1, ![c].pc = "loop"]
    /\ UNCHANGED <<OCEAN_WEIGHTS, heap, mainVars>>

\* if not genres: return "Unknown";  t = {k: 0 for k in "IENSTFJP"}
MbtiEntry(c) ==
    /\ frames[c].fn = "mbti"
    /\ frames[c].pc = "entry"
    /\ IF heap[frames[c].genres] = <<>>
       THEN frames' = [frames EXCEPT ![c].ret = Unknown, ![c].pc = "done"]
       ELSE frames' = [frames EXCEPT ![c].t = ZeroTally, ![c].i = 1,
                                     ![c].pc = "loop"]
    /\ UNCHANGED <<OCEAN_WEIGHTS, heap, mainVars>>

\* one iteration of for g in genres
MbtiLoop(c) ==
    /\ frames[c].fn = "mbti"
    /\ frames[c].pc = "loop"
    /\ frames[c].i <= Len(heap[frames[c].genres])
    /\ frames' = [frames EXCEPT
                    ![c].t = MbtiBody(@, heap[frames[c].genres][frames[c].i]),
                    ![c].i = @ + 1]
    /\ UNCHANGED <<OCEAN_WEIGHTS, heap, mainVars>>

\* the return statement after the loop
MbtiReturn(c) ==
    /\ frames[c].fn = "mbti"
    /\ frames[c].pc = "loop"
    /\ frames[c].i > Len(heap[frames[c].genres])
    /\ frames' = [frames EXCEPT ![c].ret = MbtiCode(frames[c].t),
                                ![c].pc = "done"]
    /\ UNCHANGED <<OCEAN_WEIGHTS, heap, mainVars>>

\* ------------------------------------------------------------------------
\* Steps of ocean_from_genres in frame c
\* ------------------------------------------------------------------------
\* trait_totals = np.zeros(5); hits = 0
OceanEntry(c) ==
    /\ frames[c].fn = "ocean"
    /\ frames[c].pc = "entry"
    /\ frames' = [frames EXCEPT ![c].trait_totals = ZeroTotals, ![c].hits = 0,
                                ![c].i = 1, ![c].pc = "loop"]
    /\ UNCHANGED <<OCEAN_WEIGHTS, heap, mainVars>>

\* mutant of OceanLoop: the accumulator is the table's row itself, so the
\* in-place += writes the sums into OCEAN_WEIGHTS
OceanLoopAliased(c) ==
    /\ frames[c].fn = "ocean"
    /\ frames[c].pc = "loop"
    /\ frames[c].i <= Len(heap[frames[c].genres])
    /\ LET g0 == heap[frames[c].genres][frames[c].i]
           acc == OceanBody([trait_totals |-> frames[c].trait_totals,
                             hits |-> frames[c].hits], g0, OCEAN_WEIGHTS)
       IN  /\ frames' = [frames EXCEPT ![c].trait_totals = acc.trait_totals,
                                       ![c].hits = acc.hits,
                                       ![c].i = @ + 1]
           /\ OCEAN_WEIGHTS' =
                 IF Lower(g0) \in DOMAIN OCEAN_WEIGHTS
                 THEN [OCEAN_WEIGHTS EXCEPT ![Lower(g0)] = acc.trait_totals]
                 ELSE OCEAN_WEIGHTS
    /\ UNCHANGED <<heap, mainVars>>

\* one iteration of for g in genres
OceanLoop(c) ==
    /\ frames[c].fn = "ocean"
    /\ frames[c].pc = "loop"
    /\ frames[c].i <= Len(heap[frames[c].genres])
    /\ LET acc == OceanBody([trait_totals |-> frames[c].trait_totals,
                             hits |-> frames[c].hits],
                            heap[frames[c].genres][frames[c].i],
                            OCEAN_WEIGHTS)
       IN  frames' = [frames EXCEPT ![c].trait_totals = acc.trait_totals,
                                    ![c].hits = acc.hits,
                                    ![c].i = @ + 1]
    /\ UNCHANGED <<OCEAN_WEIGHTS, heap, mainVars>>

\* if hits == 0: return np.array([50] * 5); else the rescaled rounded means
OceanReturn(c) ==
    /\ frames[c].fn = "ocean"
    /\ frames[c].pc = "loop"
    /\ frames[c].i > Len(heap[frames[c].genres])
    /\ frames' = [frames EXCEPT
                    ![c].ret = OceanResult([trait_totals |-> frames[c].trait_totals,
                                            hits |-> frames[c].hits]),
                    ![c].pc = "done"]
    /\ UNCHANGED <<OCEAN_WEIGHTS, heap, mainVars>>

\* ------------------------------------------------------------------------
\* Spec: one invocation of either function on any list of the vocabulary
\* ------------------------------------------------------------------------
\* inputs that are not literals of the source
xyz_unknown_genre == <<"x","y","z","-","u","n","k","n","o","w","n","-","g","e","n","r","e">>
xyz == <<"x","y","z">>
Pop == <<"P","o","p">>
INDIE == <<"I","N","D","I","E">>

Vocab ==
    {indie, Pop, pop, classical, trap, rock, r_and_b, alternative, edm, xyz}

Examples ==
    {<<pop>>, <<indie, folk>>, <<INDIE, classical>>, <<xyz_unknown_genre>>}

Inputs ==
    SeqsUpTo(Vocab, MaxLen) \cup Examples

MainIdle ==
    /\ pc = "off"
    /\ raw_genres = <<>>
    /\ top_genres = 0
    /\ mbti = <<>>
    /\ ocean = <<>>
    /\ shown = <<>>
    /\ insight_args = <<>>

Init ==
    /\ OCEAN_WEIGHTS = OceanWeightsTable
    /\ \E G \in Inputs : heap = <<G>>
    /\ \E fn \in {"mbti", "ocean"} : frames = <<NewFrame(fn, 1)>>
    /\ MainIdle

Next ==
    \/ \E c \in DOMAIN frames : MbtiEntry(c)
    \/ \E c \in DOMAIN frames : MbtiLoop(c)
    \/ \E c \in DOMAIN frames : MbtiReturn(c)
    \/ \E c \in DOMAIN frames : OceanEntry(c)
    \/ \E c \in DOMAIN frames : OceanLoop(c)
    \/ \E c \in DOMAIN frames : OceanReturn(c)

Spec == Init /\ [][Next]_vars

\* ------------------------------------------------------------------------
\* SpecConc: NumCalls invocations interleaved statement by statement.  A
\* call is given its own list object or shares the first call's object.
\* ------------------------------------------------------------------------
ConcVocab ==
    {Pop, indie}

ConcInputs ==
    SeqsUpTo(ConcVocab, ConcMaxLen)

CallIds == 1..NumCalls

InitConc ==
    /\ OCEAN_WEIGHTS = OceanWeightsTable
    /\ \E h \in [CallIds -> ConcInputs], ref \in [CallIds -> CallIds],
          fn \in [CallIds -> {"mbti", "ocean"}] :
          /\ \A c \in CallIds : ref[c] \in {1, c}
          /\ \A o \in CallIds : (\A c \in CallIds : ref[c] # o) => h[o] = <<>>
          /\ heap = h
          /\ frames = [c \in CallIds |-> NewFrame(fn[c], ref[c])]
    /\ MainIdle

SpecConc == InitConc /\ [][Next]_vars

\* ------------------------------------------------------------------------
\* SpecMain: one run of the script
\* ------------------------------------------------------------------------
TopN == 10

Range(q) ==
    {q[k] : k \in DOMAIN q}

\* [g for a in artists["items"] for g in a["genres"]]
RECURSIVE Flatten(_)
Flatten(items) ==
    IF items = <<>> THEN <<>>
    ELSE Head(items) \o Flatten(Tail(items))

\* [g for g, _ in Counter(raw).most_common(n)]: distinct elements by
\* descending count, equal counts in order of first occurrence, first n
MostCommon(raw, n) ==
    LET D == Range(raw)
        Count(x) == Cardinality({k \in DOMAIN raw : raw[k] = x})
        First(x) == CHOOSE k \in DOMAIN raw :
                        raw[k] = x /\ \A j \in 1..(k - 1) : raw[j] # x
        Before(x, y) == \/ Count(x) > Count(y)
                        \/ Count(x) = Count(y) /\ First(x) < First(y)
        Rank(x) == 1 + Cardinality({y \in D : Before(y, x)})
        m == IF Cardinality(D) < n THEN Cardinality(D) ELSE n
    IN  [k \in 1..m |-> CHOOSE x \in D : Rank(x) = k]

MainVocab ==
    {Pop, pop, xyz}

ArtistItems ==
    SeqsUpTo(SeqsUpTo(MainVocab, MaxArtistGenres), MaxArtists)

\* if st.button("Logout & Clear Session"): ... st.stop()
Logout ==
    /\ pc = "button"
    /\ shown' = Append(shown, "logged_out")
    /\ pc' = "stopped"
    /\ UNCHANGED <<OCEAN_WEIGHTS, heap, frames, raw_genres, top_genres, mbti,
                   ocean, insight_args>>

\* the button is not pressed; OAuth set-up and sp.current_user() succeed
Login ==
    /\ pc = "button"
    /\ shown' = Append(shown, "logged_in_as")
    /\ pc' = "top_genres"
    /\ UNCHANGED <<OCEAN_WEIGHTS, heap, frames, raw_genres, top_genres, mbti,
                   ocean, insight_args>>

\* except SpotifyOauthError / SpotifyException: st.error(...); st.stop()
LoginFails ==
    /\ pc = "button"
    /\ shown' = Append(shown, "error")
    /\ pc' = "stopped"
    /\ UNCHANGED <<OCEAN_WEIGHTS, heap, frames, raw_genres, top_genres, mbti,
                   ocean, insight_args>>

\* artists = sp.current_user_top_artists(...); raw_genres; top_genres;
\* st.write(...); the recent tracks are fetched
FetchTopGenres ==
    /\ pc = "top_genres"
    /\ \E items \in ArtistItems :
          /\ raw_genres' = Flatten(items)
          /\ heap' = Append(heap, MostCommon(Flatten(items), TopN))
          /\ top_genres' = Len(heap) + 1
          /\ shown' = Append(shown, IF MostCommon(Flatten(items), TopN) = <<>>
                                    THEN "no_genre_data" ELSE "top_genres")
    /\ pc' = "call_mbti"
    /\ UNCHANGED <<OCEAN_WEIGHTS, frames, mbti, ocean, insight_args>>

\* mbti = mbti_from_genres(top_genres): the call
CallMbti ==
    /\ pc = "call_mbti"
    /\ frames' = <<NewFrame("mbti", top_genres)>>
    /\ pc' = "in_mbti"
    /\ UNCHANGED <<OCEAN_WEIGHTS, heap, raw_genres, top_genres, mbti, ocean,
                   shown, insight_args>>

\* mbti = mbti_from_genres(top_genres): the assignment of the returned value
ReturnMbti ==
    /\ pc = "in_mbti"
    /\ frames[1].pc = "done"
    /\ mbti' = frames[1].ret
    /\ frames' = <<>>
    /\ pc' = "call_ocean"
    /\ UNCHANGED <<OCEAN_WEIGHTS, heap, raw_genres, top_genres, ocean, shown,
                   insight_args>>

\* ocean = ocean_from_genres(top_genres): the call
CallOcean ==
    /\ pc = "call_ocean"
    /\ frames' = <<NewFrame("ocean", top_genres)>>
    /\ pc' = "in_ocean"
    /\ UNCHANGED <<OCEAN_WEIGHTS, heap, raw_genres, top_genres, mbti, ocean,
                   shown, insight_args>>

\* ocean = ocean_from_genres(top_genres): the assignment of the returned value
ReturnOcean ==
    /\ pc = "in_ocean"
    /\ frames[1].pc = "done"
    /\ ocean' = frames[1].ret
    /\ frames' = <<>>
    /\ pc' = "show_mbti"
    /\ UNCHANGED <<OCEAN_WEIGHTS, heap, raw_genres, top_genres, mbti, shown,
                   insight_args>>

\* if mbti != "Unknown": st.subheader(...) else: st.warning(...);
\* then the radar chart
ShowProfile ==
    /\ pc = "show_mbti"
    /\ shown' = shown \o << IF mbti # Unknown THEN "mbti_prediction"
                            ELSE "mbti_warning",
                            "radar_chart" >>
    /\ pc' = "insight"
    /\ UNCHANGED <<OCEAN_WEIGHTS, heap, frames, raw_genres, top_genres, mbti,
                   ocean, insight_args>>

\* insight = generate_personality_insight(mbti, ocean, tracks); st.write
GenerateInsight ==
    /\ pc = "insight"
    /\ insight_args' = Append(insight_args, [mbti |-> mbti, ocean_scores |-> ocean])
    /\ shown' = Append(shown, "insight")
    /\ pc' = "end"
    /\ UNCHANGED <<OCEAN_WEIGHTS, heap, frames, raw_genres, top_genres, mbti,
                   ocean>>

InitMain ==
    /\ OCEAN_WEIGHTS = OceanWeightsTable
    /\ heap = <<>>
    /\ frames = <<>>
    /\ pc = "button"
    /\ raw_genres = <<>>
    /\ top_genres = 0
    /\ mbti = <<>>
    /\ ocean = <<>>
    /\ shown = <<>>
    /\ insight_args = <<>>

NextMain ==
    \/ Logout
    \/ Login
    \/ LoginFails
    \/ FetchTopGenres
    \/ CallMbti
    \/ ReturnMbti
    \/ CallOcean
    \/ ReturnOcean
    \/ ShowProfile
    \/ GenerateInsight
    \/ \E c \in DOMAIN frames : MbtiEntry(c)
    \/ \E c \in DOMAIN frames : MbtiLoop(c)
    \/ \E c \in DOMAIN frames : MbtiReturn(c)
    \/ \E c \in DOMAIN frames : OceanEntry(c)
    \/ \E c \in DOMAIN frames : OceanLoop(c)
    \/ \E c \in DOMAIN frames : OceanReturn(c)

SpecMain == InitMain /\ [][NextMain]_vars

\* ========================================================================
\* Properties
\* ========================================================================
\* the frames that have returned, and the list a frame was called with
Returned(fn) ==
    {c \in DOMAIN frames : frames[c].fn = fn /\ frames[c].pc = "done"}

Arg(c) ==
    heap[frames[c].genres]

\* the category table of the specification: members and incremented letters
CategoryTable ==
    << [members |-> {indie, folk, ambient, lo_fi},        letters |-> {"I","N","F","P"}],
       [members |-> {pop, dance_pop, electropop, k_pop},  letters |-> {"E","S","F","J"}],
       [members |-> {hip_hop, rap, trap},                 letters |-> {"E","S","T","P"}],
       [members |-> {classical, jazz, instrumental},      letters |-> {"I","N","T","J"}],
       [members |-> {rock, metal, punk},                  letters |-> {"E","S","T","P"}],
       [members |-> {r_and_b, soul},                      letters |-> {"I","F","J"}],
       [members |-> {alternative},                        letters |-> {"I","N","T","P"}] >>

\* case folding as the properties understand it
FoldMap ==
    [ch \in {UpperChars[k] : k \in 1..26} \cup {LowerChars[k] : k \in 1..26} |->
        IF \E k \in 1..26 : UpperChars[k] = ch
        THEN LowerChars[CHOOSE k \in 1..26 : UpperChars[k] = ch]
        ELSE ch]

Fold(g) ==
    [k \in 1..Len(g) |-> IF g[k] \in DOMAIN FoldMap THEN FoldMap[g[k]] ELSE g[k]]

\* the letters the table gives a genre: those of its category, or none
LettersOf(g) ==
    UNION {CategoryTable[r].letters :
              r \in {r \in DOMAIN CategoryTable : Fold(g) \in CategoryTable[r].members}}

\* the final tally of a list: per letter, the number of genres contributing
\* the final tally of a list
Tally(G) ==
    LET L == [k \in DOMAIN G |-> LettersOf(G[k])]
    IN  [letter \in {"I","E","N","S","T","F","J","P"} |->
            Cardinality({k \in DOMAIN G : letter \in L[k]})]

NoCategory(G) ==
    \A k \in DOMAIN G : LettersOf(G[k]) = {}

\* C1: for a non-empty list mbti_from_genres returns the code whose letters
\* are decided per axis from the final tally, the left letter winning a tie;
\* ["pop"] gives ESFJ, ["indie","folk"] gives INFP, and a non-empty list
\* without any category member gives INTJ.
C1_AxisRule ==
    \A c \in Returned("mbti") :
        LET G == Arg(c)
            count == Tally(G)
        IN
        G # <<>> =>
            /\ frames[c].ret =
                 << IF count["I"] >= count["E"] THEN "I" ELSE "E",
                    IF count["N"] >= count["S"] THEN "N" ELSE "S",
                    IF count["T"] >= count["F"] THEN "T" ELSE "F",
                    IF count["J"] >= count["P"] THEN "J" ELSE "P" >>
            /\ G = <<pop>> => frames[c].ret = <<"E","S","F","J">>
            /\ G = <<indie, folk>> => frames[c].ret = <<"I","N","F","P">>
            /\ NoCategory(G) => frames[c].ret = <<"I","N","T","J">>

\* a returned call whose tally ties on the I/E axis with both counts positive
C1_Witness ==
    \E c \in Returned("mbti") :
        /\ Tally(Arg(c))["I"] = Tally(Arg(c))["E"]
        /\ Tally(Arg(c))["I"] > 0
        /\ Tally(Arg(c))["T"] < Tally(Arg(c))["F"]
        /\ frames[c].ret[1] = "I"
        /\ frames[c].ret[3] = "F"

\* ------------------------------------------------------------------------
\* the genres of a list that the weight table knows, in order
Matched(G) ==
    SelectSeq(G, LAMBDA g : Fold(g) \in DOMAIN OceanWeightsTable)

RECURSIVE WeightSum(_, _)
WeightSum(G, k) ==
    IF G = <<>> THEN 0
    ELSE OceanWeightsTable[Fold(Head(G))][k] + WeightSum(Tail(G), k)

Abs(n) ==
    IF n < 0 THEN 0 - n ELSE n

\* r tenths is the rational n / d rounded to the nearest tenth, an exact
\* half going to the even tenth
IsNearestTenth(r, n, d) ==
    \/ 2 * Abs(10 * n - r * d) < d
    \/ 2 * Abs(10 * n - r * d) = d /\ r % 2 = 0

\* C2: when at least one genre matches the weight table, ocean_from_genres
\* returns per trait 20 + (mean - 1) * 15 rounded half-to-even to one
\* decimal, mean being the sum of the matched weights over the number of
\* matched genres; ["indie"] gives (65, 20, 35, 35, 20) and
\* ["indie","classical"] gives (72.5, 42.5, 27.5, 42.5, 20.0).
C2_RescaledMean ==
    \A c \in Returned("ocean") :
        LET G == Arg(c)
            h == Len(Matched(G))
        IN  h > 0 =>
            /\ \A k \in Traits :
                  \* 20 + (sum / h - 1) * 15 = (20 * h + 15 * (sum - h)) / h
                  IsNearestTenth(frames[c].ret[k],
                                 20 * h + 15 * (WeightSum(Matched(G), k) - h), h)
            /\ G = <<indie>> => frames[c].ret = <<650, 200, 350, 350, 200>>
            /\ G = <<indie, classical>> =>
                  frames[c].ret = <<725, 425, 275, 425, 200>>

\* a returned call with duplicates whose mean for a trait rescales to an
\* exact half of a tenth (31.25), returned as the even tenth 31.2
C2_Witness ==
    \E c \in Returned("ocean") :
        /\ Len(Matched(Arg(c))) = 4
        /\ \E j, k \in DOMAIN Arg(c) : j # k /\ Arg(c)[j] = Arg(c)[k]
        /\ \E k \in Traits :
              /\ WeightSum(Matched(Arg(c)), k) = 7
              /\ frames[c].ret[k] = 312

\* ------------------------------------------------------------------------
\* C3: mbti_from_genres returns "Unknown" exactly when the list is empty;
\* for a non-empty list it returns 4 characters, the 1st of I/E, the 2nd of
\* N/S, the 3rd of T/F, the 4th of J/P.
C3_UnknownIffEmpty ==
    \A c \in Returned("mbti") :
        /\ frames[c].ret = Unknown <=> Arg(c) = <<>>
        /\ Arg(c) # <<>> =>
              /\ Len(frames[c].ret) = 4
              /\ frames[c].ret[1] \in {"I", "E"}
              /\ frames[c].ret[2] \in {"N", "S"}
              /\ frames[c].ret[3] \in {"T", "F"}
              /\ frames[c].ret[4] \in {"J", "P"}

\* a returned call on a non-empty list of unrecognized genres only
C3_Witness ==
    \E c \in Returned("mbti") :
        /\ Arg(c) # <<>>
        /\ NoCategory(Arg(c))
        /\ Len(frames[c].ret) = 4

\* ------------------------------------------------------------------------
\* C4: ocean_from_genres returns (50, 50, 50, 50, 50) whenever no genre of
\* the list matches the weight table after case folding.
C4_NoHitSentinel ==
    \A c \in Returned("ocean") :
        Matched(Arg(c)) = <<>> => frames[c].ret = <<500, 500, 500, 500, 500>>

\* a returned call on a non-empty list none of whose genres is in the table
C4_Witness ==
    \E c \in Returned("ocean") :
        /\ Len(Arg(c)) >= 2
        /\ Matched(Arg(c)) = <<>>
        /\ frames[c].hits = 0
        /\ frames[c].ret = <<500, 500, 500, 500, 500>>

\* ------------------------------------------------------------------------
\* str.upper() on the characters of the vocabulary
UpperMap ==
    [ch \in {LowerChars[k] : k \in 1..26} |->
        UpperChars[CHOOSE j \in 1..26 : LowerChars[j] = ch]]

Upper(g) ==
    [k \in 1..Len(g) |-> IF g[k] \in DOMAIN UpperMap THEN UpperMap[g[k]] ELSE g[k]]

CharOrder ==
    <<" ", "&", "-">> \o UpperChars \o LowerChars

CharRank ==
    [ch \in {CharOrder[k] : k \in DOMAIN CharOrder} |->
        CHOOSE k \in DOMAIN CharOrder : CharOrder[k] = ch]

RECURSIVE StrLeq(_, _)
StrLeq(a, b) ==
    IF a = <<>> THEN TRUE
    ELSE IF b = <<>> THEN FALSE
    ELSE IF Head(a) = Head(b) THEN StrLeq(Tail(a), Tail(b))
    ELSE CharRank[Head(a)] < CharRank[Head(b)]

RECURSIVE SortedInsert(_, _)
SortedInsert(x, q) ==
    IF q = <<>> THEN <<x>>
    ELSE IF StrLeq(x, Head(q)) THEN <<x>> \o q
    ELSE <<Head(q)>> \o SortedInsert(x, Tail(q))

RECURSIVE SortStrings(_)
SortStrings(q) ==
    IF q = <<>> THEN <<>>
    ELSE SortedInsert(Head(q), SortStrings(Tail(q)))

\* the one representative of all lists that are equal as multisets after
\* case folding: the folded genres in sorted order
Canonical(G) ==
    SortStrings([k \in 1..Len(G) |-> Fold(G[k])])

\* the list read backwards with every genre in upper case
UpperReversed(G) ==
    [k \in 1..Len(G) |-> Upper(G[Len(G) + 1 - k])]

\* C5: both functions are invariant under permutation of the list and under
\* change of letter case: a call returns what the function gives on the
\* canonical representative of the list's case-folded multiset, and on the
\* reversed list in upper case.
C5_OrderAndCaseInvariant ==
    /\ \A c \in Returned("mbti") :
          /\ frames[c].ret = mbti_from_genres(Canonical(Arg(c)))
          /\ frames[c].ret = mbti_from_genres(UpperReversed(Arg(c)))
    /\ \A c \in Returned("ocean") :
          /\ frames[c].ret = ocean_from_genres(Canonical(Arg(c)), OceanWeightsTable)
          /\ frames[c].ret = ocean_from_genres(UpperReversed(Arg(c)), OceanWeightsTable)

\* a returned call on a list that is neither sorted nor folded, with genres
\* of different categories and a recognized genre in mixed case
C5_Witness ==
    \E c \in DOMAIN frames :
        /\ frames[c].pc = "done"
        /\ Len(Arg(c)) >= 3
        /\ Canonical(Arg(c)) # Arg(c)
        /\ Canonical(Arg(c)) # [k \in 1..Len(Arg(c)) |-> Fold(Arg(c)[k])]
        /\ \E k \in DOMAIN Arg(c) : Arg(c)[k] = Pop
        /\ \E k \in DOMAIN Arg(c) : Arg(c)[k] = indie

\* ------------------------------------------------------------------------
\* the genres of a list that belong to some category, in order
Categorized(G) ==
    SelectSeq(G, LAMBDA g : LettersOf(g) # {})

\* C6: unrecognized genres contribute nothing and are not counted:
\* ocean_from_genres returns what it gives on the list without the genres
\* missing from the weight table, and mbti_from_genres, when a genre of some
\* category remains, what it gives on the list without the genres of no
\* category.
C6_UnrecognizedIgnored ==
    /\ \A c \in Returned("ocean") :
          frames[c].ret = ocean_from_genres(Matched(Arg(c)), OceanWeightsTable)
    /\ \A c \in Returned("mbti") :
          Categorized(Arg(c)) # <<>> =>
              frames[c].ret = mbti_from_genres(Categorized(Arg(c)))

\* a returned ocean call on a list mixing table genres with others
C6_Witness ==
    \E c \in Returned("ocean") :
        /\ Len(Matched(Arg(c))) >= 2
        /\ Len(Matched(Arg(c))) < Len(Arg(c))
        /\ frames[c].hits = Len(Matched(Arg(c)))

\* ------------------------------------------------------------------------
\* C7: in a run in which mbti_from_genres returns "Unknown",
\* generate_personality_insight is never called with it as the MBTI type.
C7_UnknownShortCircuits ==
    \A k \in DOMAIN insight_args : insight_args[k].mbti # Unknown

\* ------------------------------------------------------------------------
\* C8: under every interleaving each call returns what the function returns
\* alone on its list, and no step changes OCEAN_WEIGHTS or a list object.
C8_PureUnderInterleaving ==
    /\ [][OCEAN_WEIGHTS' = OCEAN_WEIGHTS /\ heap' = heap]_vars
    /\ [](\A c \in Returned("mbti") :
             frames[c].ret = mbti_from_genres(Arg(c)))
    /\ [](\A c \in Returned("ocean") :
             frames[c].ret = ocean_from_genres(Arg(c), OceanWeightsTable))

\* two ocean calls on one shared list object: one has returned while the
\* other is in the middle of its loop
C8_Witness ==
    \E c \in Returned("ocean") : \E d \in DOMAIN frames :
        /\ d # c
        /\ frames[d].genres = frames[c].genres
        /\ frames[d].fn = "ocean"
        /\ frames[d].pc = "loop"
        /\ frames[d].i = 2
        /\ frames[d].hits = 1
        /\ Len(Arg(c)) >= 2
        /\ frames[c].hits = Len(Arg(c))

\* ------------------------------------------------------------------------
\* number of genres a frame has processed so far
Processed(c) ==
    IF frames[c].i = 0 THEN 0 ELSE frames[c].i - 1

AxisPairs ==
    {{"I","E"}, {"N","S"}, {"T","F"}, {"J","P"}}

\* C9: in mbti_from_genres all 8 counts are natural numbers, one genre
\* leaves the tally unchanged or adds exactly 1 to the 3 or 4 letters of its
\* category, never to both letters of an axis, and the two counts of an
\* axis sum to at most the number of genres processed.
C9_TallyInvariant ==
    /\ [](\A c \in DOMAIN frames :
             frames[c].fn = "mbti" =>
                /\ \A k \in TallyKeys : frames[c].t[k] \in Nat
                /\ \A ax \in AxisPairs :
                      \A a, b \in ax :
                          a # b => frames[c].t[a] + frames[c].t[b] <= Processed(c))
    /\ [][\A c \in DOMAIN frames :
             (frames[c].fn = "mbti" /\ frames[c].pc = "loop"
                 /\ frames'[c].pc = "loop") =>
                LET g == Arg(c)[frames[c].i]
                    S == {k \in TallyKeys : frames'[c].t[k] # frames[c].t[k]}
                IN  /\ frames'[c].i = frames[c].i + 1
                    /\ \A k \in S : frames'[c].t[k] = frames[c].t[k] + 1
                    /\ S = LettersOf(g)
                    /\ Cardinality(S) \in {0, 3, 4}
                    /\ \A ax \in AxisPairs : ~(ax \subseteq S)]_vars

\* a frame that has processed a genre of a 3-letter category and one of a
\* 4-letter category
C9_Witness ==
    \E c \in DOMAIN frames :
        /\ frames[c].fn = "mbti"
        /\ frames[c].pc = "loop"
        /\ Processed(c) = 3
        /\ frames[c].t["I"] + frames[c].t["E"] = 3
        /\ frames[c].t["N"] + frames[c].t["S"] = 1
        /\ frames[c].t["J"] = 2

\* ------------------------------------------------------------------------
\* C10: every returned component lies in [20, 80]: the weights are integers
\* in [1, 5], so the accumulator stays within hits <= sum <= 5 * hits and
\* the rescaled mean needs no clamping; without a hit the result is all 50.
C10_ScoresInRange ==
    /\ \A g \in DOMAIN OCEAN_WEIGHTS :
          \A k \in Traits : OCEAN_WEIGHTS[g][k] \in 1..5
    /\ \A c \in DOMAIN frames :
          frames[c].fn = "ocean" =>
             /\ \A k \in Traits :
                   /\ frames[c].hits <= frames[c].trait_totals[k]
                   /\ frames[c].trait_totals[k] <= 5 * frames[c].hits
             /\ frames[c].pc = "done" =>
                   /\ \A k \in Traits : frames[c].ret[k] \in 200..800
                   /\ frames[c].hits = 0 =>
                         frames[c].ret = <<500, 500, 500, 500, 500>>
                   \* the unclamped 20 + (mean - 1) * 15, times hits
                   /\ frames[c].hits > 0 =>
                         \A k \in Traits :
                            LET v == 20 * frames[c].hits
                                     + 15 * (frames[c].trait_totals[k] - frames[c].hits)
                            IN  /\ 20 * frames[c].hits <= v
                                /\ v <= 80 * frames[c].hits

\* a returned call whose scores touch both ends of the range
C10_Witness ==
    \E c \in Returned("ocean") :
        /\ frames[c].hits >= 2
        /\ frames[c].ret[1] = 800
        /\ frames[c].ret[5] = 200

====
